---- MODULE Spec2Model ----
(***************************************************************************)
(* Model of the NSWS approvals crawler: nsws_scraper.py (variant 1) and    *)
(* nsws_scraper2.py (variant 2).  One single-threaded run is a sequence of *)
(* steps of main -> click_filter_and_process ->                            *)
(* handle_pagination_and_extraction -> extract_detail_page over one        *)
(* browser session and three CSV sinks.                                    *)
(*                                                                         *)
(* Text is a sequence of one-character strings, so that clean_text, the    *)
(* substring tests and the label regex are computed as the code computes   *)
(* them.  A URL is a sequence of tokens ("https:", "//host", "/", segment).*)
(*                                                                         *)
(* The browser driver is the environment.  A driver call may raise; the    *)
(* raises of the calls made per card, per page and per filter option are   *)
(* counted in faults and bounded by MaxFaults, the raise of a reload or of *)
(* the first navigation is not counted.  page.close() always releases the  *)
(* view: when it cannot, the view is already gone.                         *)
(***************************************************************************)
EXTENDS Naturals, Sequences, FiniteSets

VARIABLES
    variant,      \* 1: nsws_scraper.py, 2: nsws_scraper2.py
    pc,           \* position of the single thread of control
    phase,        \* 1 ByMinistry, 2 ByDepartment, 3 Unfiltered (0 before the first)
    rv,           \* results view: [page, active] (page.goto / reload / clicks)
    openViews,    \* number of open secondary (detail) views
    files,        \* the three sinks: [exists, lines]
    fi,           \* locals of click_filter_and_process
    wk,           \* locals of handle_pagination_and_extraction
    faults,       \* counted driver raises so far
    runs,         \* number of process starts so far
    hist,         \* history of the run (what the claims are stated over)
    ct            \* a call of clean_text on its own: [text, once, twice, calls]

vars == <<variant, pc, phase, rv, openViews, files, fi, wk, faults, runs, hist, ct>>

\* Bounds of the model.
MaxFaults == 1
MaxRuns == 2
MaxText == 3
MaxVisits == 4

-----------------------------------------------------------------------------
\* Text helpers (Python str semantics on sequences of characters)

IsSpace(c) == c \in {" ", "\n", "\t"}

IsDigit(c) == c \in {"0", "1", "2", "3", "4", "5", "6", "7", "8", "9"}

UPPER == <<"A","B","C","D","E","F","G","H","I","J","K","L","M","N","O","P","Q","R","S","T","U","V","W","X","Y","Z">>

LOWER == <<"a","b","c","d","e","f","g","h","i","j","k","l","m","n","o","p","q","r","s","t","u","v","w","x","y","z">>

\* str.lower()
LowerChar(c) ==
    IF \E n \in 1..Len(UPPER) : UPPER[n] = c
    THEN LOWER[CHOOSE n \in 1..Len(UPPER) : UPPER[n] = c]
    ELSE c

Lower(t) == [n \in 1..Len(t) |-> LowerChar(t[n])]

\* t[from..] as Python t[from-1:]
Drop(t, n) == SubSeq(t, n + 1, Len(t))

StartsWith(t, p) == Len(p) <= Len(t) /\ SubSeq(t, 1, Len(p)) = p

\* p in t
Contains(t, p) == \E n \in 0..Len(t) : StartsWith(Drop(t, n), p)

\* str.strip()
RECURSIVE LStrip(_)
LStrip(t) == IF t # <<>> /\ IsSpace(Head(t)) THEN LStrip(Tail(t)) ELSE t

RECURSIVE RStrip(_)
RStrip(t) ==
    IF t # <<>> /\ IsSpace(t[Len(t)]) THEN RStrip(SubSeq(t, 1, Len(t) - 1)) ELSE t

Strip(t) == RStrip(LStrip(t))

\* str.replace(p, "") for a non-empty p
RECURSIVE Remove(_, _)
Remove(t, p) ==
    IF t = <<>> THEN <<>>
    ELSE IF StartsWith(t, p) THEN Remove(Drop(t, Len(p)), p)
    ELSE <<Head(t)>> \o Remove(Tail(t), p)

\* str.split('\n')
RECURSIVE SplitLines(_)
SplitLines(t) ==
    IF \E n \in 1..Len(t) : t[n] = "\n"
    THEN LET n == CHOOSE m \in 1..Len(t) : t[m] = "\n" /\ \A k \in 1..(m - 1) : t[k] # "\n"
         IN  <<SubSeq(t, 1, n - 1)>> \o SplitLines(Drop(t, n))
    ELSE <<t>>

\* re.sub(r'<[^>]+>', '', text)
RECURSIVE StripTags(_)
StripTags(t) ==
    IF t = <<>> THEN <<>>
    ELSE IF /\ Head(t) = "<"
            /\ Len(t) >= 3
            /\ t[2] # ">"
            /\ \E j \in 3..Len(t) : t[j] = ">"
         THEN LET j == CHOOSE m \in 3..Len(t) :
                          t[m] = ">" /\ \A k \in 3..(m - 1) : t[k] # ">"
              IN  StripTags(Drop(t, j))
         ELSE <<Head(t)>> \o StripTags(Tail(t))

\* re.sub(r'\s+', ' ', text)
RECURSIVE CollapseSpace(_)
CollapseSpace(t) ==
    IF t = <<>> THEN <<>>
    ELSE IF IsSpace(Head(t)) THEN <<" ">> \o CollapseSpace(LStrip(t))
    ELSE <<Head(t)>> \o CollapseSpace(Tail(t))

NA == <<"N","/","A">>

ERROR == <<"E","r","r","o","r">>

YES == <<"Y","e","s">>

NO_INFO == <<"N","o"," ","(","I","n","f","o","r","m","a","t","i","o","n"," ","O","n","l","y",")">>

clean_text(text) ==
    IF text = <<>> THEN NA
    ELSE Strip(CollapseSpace(StripTags(text)))

\* re.sub(r'\(\d+\)$', '', raw): the longest suffix "(digits)" is removed
StripCount(raw) ==
    IF \E n \in 1..Len(raw) :
          /\ raw[n] = "("
          /\ raw[Len(raw)] = ")"
          /\ n + 1 < Len(raw)
          /\ \A k \in (n + 1)..(Len(raw) - 1) : IsDigit(raw[k])
    THEN LET n == CHOOSE m \in 1..Len(raw) :
                     /\ raw[m] = "("
                     /\ raw[Len(raw)] = ")"
                     /\ m + 1 < Len(raw)
                     /\ \A k \in (m + 1)..(Len(raw) - 1) : IsDigit(raw[k])
         IN  SubSeq(raw, 1, n - 1)
    ELSE raw

\* filter_name = re.sub(r'\(\d+\)$', '', inner_text().strip()).strip()
FilterName(label) == Strip(StripCount(Strip(label)))

BASE_URL == <<"https:", "//www.nsws.gov.in", "/", "portal", "/", "approvalsandregistrations">>

\* urllib.parse.urljoin(BASE_URL, href) for the three shapes of href
urljoin(base, href) ==
    IF Head(href) = "https:" THEN href
    ELSE IF Head(href) = "/" THEN SubSeq(base, 1, 2) \o href
    ELSE SubSeq(base, 1, Len(base) - 1) \o href

-----------------------------------------------------------------------------
\* CSV schemas

MINISTRY_HEADERS ==
    <<"Approval Link", "Approval Name", "Ministry Name", "About this approval",
      "Who can apply", "Documents required", "Approval applicability/trigger",
      "Application Fee", "Validity", "Average Time taken to get this",
      "Can be applied through NSWS">>

DEPT_HEADERS ==
    <<"Approval Link", "Approval Name", "Department Name", "About this approval",
      "Who can apply", "Documents required", "Approval applicability/trigger",
      "Application Fee", "Validity", "Average Time taken to get this",
      "Can be applied through NSWS">>

ALL_HEADERS ==
    <<"Approval Link", "Approval Name", "Ministry Name", "Department Name",
      "About this approval", "Who can apply", "Documents required",
      "Approval applicability/trigger", "Application Fee", "Validity",
      "Average Time taken to get this", "Can be applied through NSWS">>

Range(s) == {s[n] : n \in 1..Len(s)}

\* dict update: e's keys win
Merge(d, e) ==
    [k \in (DOMAIN d) \cup (DOMAIN e) |-> IF k \in DOMAIN e THEN e[k] ELSE d[k]]

One(k, v) == [x \in {k} |-> v]

\* the empty dict
EmptyDict == [k \in {} |-> <<>>]

-----------------------------------------------------------------------------
\* The site: detail pages, filter groups and result lists (the environment)

\* A detail page as the driver's locators see it:
\*   h1, banner: inner texts of the matching elements, in document order
\*   heads: heading-like elements (h2-h4, strong, b) with the first div after
\*          them, their first following sibling div/p and the last div of
\*          their parent (each absent or one text)
\*   els: elements with own text, their parent's inner text and next sibling
\*   apply: an "Apply Now" / "Login to Apply" control exists
DetailA1 ==
    [h1 |-> << <<" ","B","o","i","l","e","r"," "," ","L","i","c","e","n","c","e","\n">> >>,
     banner |-> << <<"M","i","n","i","s","t","r","y"," ","o","f"," ","H","e","a","l","t","h","\n","D","e","p","a","r","t","m","e","n","t"," ","o","f"," ","H","e","a","l","t","h"," ","R","e","s","e","a","r","c","h">> >>,
     heads |-> << [text |-> <<"A","b","o","u","t">>, following |-> << <<"<","b",">","S","a","f","e","t","y","<","/","b",">"," ","p","e","r","m","i","t">> >>,
                   sibling |-> << <<"S","a","f","e","t","y"," "," ","p","e","r","m","i","t">> >>, parentLast |-> <<>>],
                  [text |-> <<"T","r","i","g","g","e","r">>, following |-> << <<"O","n"," ","s","t","a","r","t">> >>,
                   sibling |-> << <<"O","n"," ","s","t","a","r","t">> >>, parentLast |-> <<>>],
                  [text |-> <<"A","p","p","l","i","c","a","b","i","l","i","t","y">>, following |-> <<>>,
                   sibling |-> <<>>, parentLast |-> <<>>] >>,
     els |-> << [text |-> <<"F","e","e",":">>, parent |-> <<"F","e","e",":"," ","5","0","0">>, next |-> <<>>],
                [text |-> <<"V","a","l","i","d","i","t","y">>, parent |-> <<"V","a","l","i","d","i","t","y">>, next |-> << <<"5"," ","y","r">> >>] >>,
     apply |-> TRUE]

DetailA2 ==
    [h1 |-> <<>>, banner |-> <<>>, heads |-> <<>>, els |-> <<>>, apply |-> FALSE]

DetailA3 ==
    [h1 |-> << <<"<","i",">","M","i","l","l","<","/","i",">">> >>,
     banner |-> << <<"M","i","n","i","s","t","r","y"," ","o","f"," ","P","o","w","e","r">> >>,
     heads |-> << [text |-> <<"E","l","i","g","i","b","i","l","i","t","y">>, following |-> <<>>,
                   sibling |-> <<>>, parentLast |-> << <<"A","n","y"," ","u","n","i","t">> >>],
                  [text |-> <<"D","o","c","u","m","e","n","t","s">>, following |-> << <<" ","\n">> >>,
                   sibling |-> << <<" ">> >>, parentLast |-> <<>>] >>,
     els |-> << [text |-> <<"S","L","A">>, parent |-> <<"S","L","A",":"," ","3","0"," ","d","a","y","s">>, next |-> <<>>],
                [text |-> <<"C","o","s","t">>, parent |-> <<"C","o","s","t"," ","\n">>, next |-> <<>>] >>,
     apply |-> FALSE]

DetailPage(url) ==
    IF url[Len(url)] = "a1" THEN DetailA1
    ELSE IF url[Len(url)] = "a3" THEN DetailA3
    ELSE DetailA2

\* href attributes of the result cards (<<>>: the card's link has no href)
HrefA1 == <<"/", "portal", "/", "a1">>

HrefA2 == <<"a2">>

HrefA3 == <<"https:", "//www.nsws.gov.in", "/", "portal", "/", "a3">>

NoHref == <<>>

\* The .filter-type containers in document order, each with its header text
\* and its options: name, label as rendered (name and count), result pages.
FILTER_BLOCKS ==
    << [head |-> <<"M","i","n","i","s","t","r","i","e","s">>,
        options |-> << [name |-> <<"M","o","H">>, label |-> <<" ","M","o","H"," ","(","1","2",")">>,
                        pages |-> << <<HrefA1>>, <<HrefA2>> >>],
                       [name |-> <<"M","o","P">>, label |-> <<"M","o","P"," ","(","1",")"," ">>,
                        pages |-> << <<HrefA3, NoHref>> >>] >>],
       [head |-> <<"D","e","p","a","r","t","m","e","n","t","s">>,
        options |-> << [name |-> <<"D","H","R">>, label |-> <<"D","H","R"," ","(","1",")">>,
                        pages |-> << <<>>, <<HrefA1>> >>],
                       [name |-> <<"D","o","E">>, label |-> <<"D","o","E"," ","(","0",")">>,
                        pages |-> <<>>] >>] >>

ALL_PAGES == << <<HrefA1, HrefA2>>, <<HrefA3>> >>

\* Result pages shown for a set of active toggles <<block, option>>
Catalog(active) ==
    IF active = {} THEN ALL_PAGES
    ELSE IF Cardinality(active) = 1
         THEN LET a == CHOOSE x \in active : TRUE
              IN  FILTER_BLOCKS[a[1]].options[a[2]].pages
         ELSE <<>>

\* Cards rendered on the current page of the results view
CardsOn(view) ==
    IF view.page \in 1..Len(Catalog(view.active))
    THEN Catalog(view.active)[view.page]
    ELSE <<>>

\* li.ant-pagination-next: rendered when there are results, disabled on the last page
NextPresent(view) == Len(Catalog(view.active)) >= 1

NextDisabled(view) == view.page >= Len(Catalog(view.active))

FreshView == [page |-> 1, active |-> {}]

\* (mutant) a click on a checked toggle leaves it checked
Toggle_keep(view, opt) == [page |-> 1, active |-> view.active \cup {opt}]

\* a click on a toggle: checks or unchecks it; the list restarts at page 1
Toggle(view, opt) ==
    [page |-> 1,
     active |-> IF opt \in view.active THEN view.active \ {opt}
                ELSE view.active \cup {opt}]

-----------------------------------------------------------------------------
\* Field Extractor and Detail Fetcher (extract_detail_page)

\* v2 only: clean_text of the first match, "N/A" when there is none
safe_extract_text(els) == IF Len(els) > 0 THEN clean_text(els[1]) ELSE NA

\* lines = [l.strip() for l in banner_text.split('\n') if l.strip()]
BannerLines(banner_text) ==
    LET raw == SplitLines(banner_text)
        kept == SelectSeq(raw, LAMBDA l : Strip(l) # <<>>)
    IN  [n \in 1..Len(kept) |-> Strip(kept[n])]

\* for line in lines: if kw in line: data[...] = line   (the last match stays)
RECURSIVE BannerPick(_, _, _)
BannerPick(lines, kw, acc) ==
    IF lines = <<>> THEN acc
    ELSE BannerPick(Tail(lines), kw, IF Contains(Head(lines), kw) THEN Head(lines) ELSE acc)

BannerFields(v, dom) ==
    LET banner_text == IF v = 1
                       THEN (IF Len(dom.banner) > 0 THEN dom.banner[1] ELSE <<>>)
                       ELSE safe_extract_text(dom.banner)
        scan == IF v = 1 THEN banner_text # <<>> ELSE banner_text # NA
        lines == IF scan THEN BannerLines(banner_text) ELSE <<>>
    IN  Merge(One("Ministry Name", BannerPick(lines, <<"M","i","n","i","s","t","r","y">>, NA)),
              One("Department Name", BannerPick(lines, <<"D","e","p","a","r","t","m","e","n","t">>, NA)))

\* content of the section under the matched headers ms, <<>> when the lookup raises
SectionContent(v, ms) ==
    IF v = 1 THEN ms[1].following
    ELSE LET sibs == SelectSeq(ms, LAMBDA h : h.sibling # <<>>)
             pars == SelectSeq(ms, LAMBDA h : h.parentLast # <<>>)
         IN  IF sibs # <<>> THEN sibs[1].sibling
             ELSE IF pars # <<>> THEN pars[Len(pars)].parentLast
             ELSE <<>>

\* (mutant) a synonym whose content cannot be read is passed over
RECURSIVE get_section_text_retry(_, _, _)
get_section_text_retry(v, dom, header_keywords) ==
    IF header_keywords = <<>> THEN NA
    ELSE LET ms == SelectSeq(dom.heads, LAMBDA h : Contains(h.text, Head(header_keywords)))
         IN  IF ms # <<>> /\ SectionContent(v, ms) # <<>>
             THEN clean_text(SectionContent(v, ms)[1])
             ELSE get_section_text_retry(v, dom, Tail(header_keywords))

RECURSIVE get_section_text(_, _, _)
get_section_text(v, dom, header_keywords) ==
    IF header_keywords = <<>> THEN NA
    ELSE LET ms == SelectSeq(dom.heads, LAMBDA h : Contains(h.text, Head(header_keywords)))
         IN  IF ms # <<>>
             THEN (IF SectionContent(v, ms) # <<>>
                   THEN clean_text(SectionContent(v, ms)[1])
                   ELSE NA)
             ELSE get_section_text(v, dom, Tail(header_keywords))

RECURSIVE get_labeled_value(_, _, _)
get_labeled_value(v, dom, label_patterns) ==
    IF label_patterns = <<>> THEN NA
    ELSE LET pattern == Head(label_patterns)
             ms == SelectSeq(dom.els, LAMBDA e : Contains(e.text, pattern))
             el == ms[Len(ms)]
             cleaned == IF v = 1
                        THEN clean_text(Remove(el.parent, pattern))
                        ELSE clean_text(Remove(Remove(el.parent, pattern), <<":">>))
         IN  IF ms # <<>>
             THEN (IF v = 2 /\ Len(cleaned) < 2 /\ el.next # <<>>
                   THEN clean_text(el.next[1])
                   ELSE cleaned)
             ELSE get_labeled_value(v, dom, Tail(label_patterns))

ABOUT_KEYWORDS(v) ==
    IF v = 1 THEN << <<"A","b","o","u","t">>, <<"B","r","i","e","f">>, <<"D","e","s","c","r","i","p","t","i","o","n">> >>
    ELSE << <<"A","b","o","u","t">>, <<"B","r","i","e","f">>, <<"D","e","s","c","r","i","p","t","i","o","n">>, <<"O","b","j","e","c","t","i","v","e">> >>

WHO_KEYWORDS(v) ==
    IF v = 1 THEN << <<"W","h","o"," ","c","a","n">>, <<"E","l","i","g","i","b","i","l","i","t","y">> >>
    ELSE << <<"W","h","o"," ","c","a","n">>, <<"E","l","i","g","i","b","i","l","i","t","y">>, <<"B","e","n","e","f","i","c","i","a","r","y">> >>

DOCS_KEYWORDS(v) ==
    IF v = 1 THEN << <<"D","o","c","u","m","e","n","t","s">>, <<"E","n","c","l","o","s","u","r","e","s">>, <<"A","t","t","a","c","h","m","e","n","t">> >>
    ELSE << <<"D","o","c","u","m","e","n","t","s">>, <<"E","n","c","l","o","s","u","r","e","s">>, <<"A","t","t","a","c","h","m","e","n","t">>, <<"C","h","e","c","k","l","i","s","t">> >>

TRIGGER_KEYWORDS(v) ==
    IF v = 1 THEN << <<"A","p","p","l","i","c","a","b","i","l","i","t","y">>, <<"T","r","i","g","g","e","r">> >>
    ELSE << <<"A","p","p","l","i","c","a","b","i","l","i","t","y">>, <<"T","r","i","g","g","e","r">>, <<"P","r","e","r","e","q","u","i","s","i","t","e">> >>

FEE_PATTERNS(v) ==
    IF v = 1 THEN << <<"F","e","e">>, <<"P","a","y","m","e","n","t">>, <<"C","o","s","t">> >>
    ELSE << <<"F","e","e">>, <<"P","a","y","m","e","n","t">>, <<"C","o","s","t">>, <<"P","r","i","c","e">> >>

VALIDITY_PATTERNS == << <<"V","a","l","i","d","i","t","y">>, <<"V","a","l","i","d"," ","F","o","r">> >>

TIME_PATTERNS(v) ==
    IF v = 1 THEN << <<"T","i","m","e">>, <<"T","i","m","e","l","i","n","e">>, <<"S","L","A">> >>
    ELSE << <<"T","i","m","e">>, <<"T","i","m","e","l","i","n","e">>, <<"S","L","A">>, <<"D","u","r","a","t","i","o","n">> >>

\* The statements of the try block, in order.  A step that raises outside
\* every inner try ends the block; the steps before it have assigned.
STEPS ==
    <<"goto", "name", "banner", "about", "who", "docs", "trigger",
      "fee", "validity", "time", "nsws">>

\* Steps whose driver calls are not inside an inner try/except
RaisePoints(v) ==
    {"goto", "name", "about", "who", "docs", "trigger", "nsws"}
        \cup (IF v = 1 THEN {"banner"} ELSE {})

\* What one step assigns to data once it has completed
StepAssign(step, v, url, dom) ==
    IF step = "goto" THEN One("Approval Link", url)
    ELSE IF step = "name"
         THEN One("Approval Name", IF Len(dom.h1) > 0 THEN clean_text(dom.h1[1]) ELSE NA)
    ELSE IF step = "banner" THEN BannerFields(v, dom)
    ELSE IF step = "about"
         THEN One("About this approval", get_section_text(v, dom, ABOUT_KEYWORDS(v)))
    ELSE IF step = "who"
         THEN One("Who can apply", get_section_text(v, dom, WHO_KEYWORDS(v)))
    ELSE IF step = "docs"
         THEN One("Documents required", get_section_text(v, dom, DOCS_KEYWORDS(v)))
    ELSE IF step = "trigger"
         THEN One("Approval applicability/trigger",
                  get_section_text(v, dom, TRIGGER_KEYWORDS(v)))
    ELSE IF step = "fee"
         THEN One("Application Fee", get_labeled_value(v, dom, FEE_PATTERNS(v)))
    ELSE IF step = "validity"
         THEN One("Validity", get_labeled_value(v, dom, VALIDITY_PATTERNS))
    ELSE IF step = "time"
         THEN One("Average Time taken to get this",
                  get_labeled_value(v, dom, TIME_PATTERNS(v)))
    ELSE One("Can be applied through NSWS", IF dom.apply THEN YES ELSE NO_INFO)

\* data after the steps before `raise` (all of them when raise = "none")
RECURSIVE RunSteps(_, _, _, _, _)
RunSteps(steps, raise, v, url, dom) ==
    IF steps = <<>> \/ Head(steps) = raise THEN EmptyDict
    ELSE Merge(StepAssign(Head(steps), v, url, dom),
               RunSteps(Tail(steps), raise, v, url, dom))

\* except Exception: for k in ALL_HEADERS: if k not in data: data[k] = "Error"
FillError(data) ==
    [k \in (DOMAIN data) \cup Range(ALL_HEADERS) |->
        IF k \in DOMAIN data THEN data[k] ELSE ERROR]

\* (mutant) the link is stored before the navigation
extract_detail_page_link_first(v, url, raise) ==
    LET data == Merge(One("Approval Link", url),
                      RunSteps(STEPS, raise, v, url, DetailPage(url)))
    IN  IF raise = "none" THEN data ELSE FillError(data)

\* The record extract_detail_page returns when the step `raise` raises
extract_detail_page(v, url, raise) ==
    LET data == RunSteps(STEPS, raise, v, url, DetailPage(url))
    IN  IF raise = "none" THEN data ELSE FillError(data)

\* (mutant) the detail page is loaded in the results view itself
GotoDetail_same_view(view, url) == [page |-> 1, active |-> {}]

\* page = context.new_page(); page.goto(url): the navigation is in the
\* secondary view, the results view is as it was
GotoDetail(view, url) == view

\* (mutant) the view is closed at the end of the try block, not in a finally
CloseView_in_try(n, raise) == IF raise = "none" THEN n - 1 ELSE n

\* finally: page.close()     (views open after the call, given those before)
CloseView(n, raise) == n - 1

-----------------------------------------------------------------------------
\* Output sink (write_to_csv) and the row written per card

SINKS == {"Ministries.csv", "Departments.csv", "All_Approvals.csv"}

Sink(ph) ==
    IF ph = 1 THEN "Ministries.csv"
    ELSE IF ph = 2 THEN "Departments.csv"
    ELSE "All_Approvals.csv"

Headers(ph) ==
    IF ph = 1 THEN MINISTRY_HEADERS
    ELSE IF ph = 2 THEN DEPT_HEADERS
    ELSE ALL_HEADERS

SectionName(ph) == IF ph = 1 THEN <<"M","i","n","i","s","t","r","i","e","s">> ELSE <<"D","e","p","a","r","t","m","e","n","t","s">>

HeaderKey(ph) == IF ph = 1 THEN "Ministry Name" ELSE "Department Name"

NoFile == [exists |-> FALSE, lines |-> <<>>]

\* tag of a line: the card it came from (history, not part of the file)
NoTag == [run |-> 0, phase |-> 0, opt |-> <<>>, page |-> 0, card |-> 0, raise |-> "-"]

HeaderLine(headers) ==
    [kind |-> "header", cells |-> [k \in Range(headers) |-> <<k>>], tag |-> NoTag]

\* (mutant) the header is written on every call
write_to_csv_always_header(file, headers, row_data, tag) ==
    [exists |-> TRUE,
     lines |-> file.lines \o <<HeaderLine(headers)>>
                 \o <<[kind |-> "row", cells |-> row_data, tag |-> tag]>>]

\* (mutant) the row is put in front of what the file holds
write_to_csv_prepend(file, headers, row_data, tag) ==
    [exists |-> TRUE,
     lines |-> (IF file.exists THEN <<>> ELSE <<HeaderLine(headers)>>)
                 \o <<[kind |-> "row", cells |-> row_data, tag |-> tag]>>
                 \o file.lines]

\* (mutant) the row is written only when the header is not
write_to_csv_header_or_row(file, headers, row_data, tag) ==
    [exists |-> TRUE,
     lines |-> file.lines
                 \o (IF file.exists
                     THEN <<[kind |-> "row", cells |-> row_data, tag |-> tag]>>
                     ELSE <<HeaderLine(headers)>>)]

\* file_exists = filepath.exists(); open(mode='a'); header if not file_exists; row
write_to_csv(file, headers, row_data, tag) ==
    [exists |-> TRUE,
     lines |-> file.lines
                 \o (IF file.exists THEN <<>> ELSE <<HeaderLine(headers)>>)
                 \o <<[kind |-> "row", cells |-> row_data, tag |-> tag]>>]

\* open(mode='a') succeeded, then the write raised: the file exists, nothing added
Touch(file) == [exists |-> TRUE, lines |-> file.lines]

\* (mutant) the extracted value wins over the forced one
Overlay_extracted_wins(row_data, extra_fields_map) == Merge(extra_fields_map, row_data)

\* for k, v in extra_fields_map.items(): row_data[k] = v
Overlay(row_data, extra_fields_map) == Merge(row_data, extra_fields_map)

\* (mutant) the record is written as it is
safe_row_unprojected(headers, row_data) == row_data

\* safe_row = {k: row_data.get(k, "N/A") for k in headers}
safe_row(headers, row_data) ==
    [k \in Range(headers) |-> IF k \in DOMAIN row_data THEN row_data[k] ELSE NA]

\* extra_fields_map of the phase ({} in the unfiltered phase)
ExtraFields(ph, filter_name) ==
    IF ph \in {1, 2} THEN One(HeaderKey(ph), filter_name) ELSE EmptyDict

-----------------------------------------------------------------------------
\* Control flow between the four functions

\* An exception leaves click_filter_and_process / the unfiltered walk:
\* v2 wraps phases 1 and 2 in try/except, v1 wraps nothing.
AfterPhaseRaise(v, ph) == IF v = 2 /\ ph \in {1, 2} THEN "main_reload" ELSE "crashed"

\* (mutant) the next call follows without the reload between the phases
AfterPhaseReturn_no_reload(ph) == IF ph = 3 THEN "done" ELSE "fi_locate"

AfterPhaseReturn(ph) == IF ph = 3 THEN "done" ELSE "main_reload"

\* handle_pagination_and_extraction returns / raises to its caller
AfterWalkReturn(ph) == IF ph = 3 THEN "done" ELSE "fi_deact"

AfterWalkRaise(v, ph) == IF ph = 3 THEN AfterPhaseRaise(v, ph) ELSE "fi_recover"

\* (mutant) a failing card ends the loop over the page's cards
NextCard_break(idx, count, failed) ==
    [pc |-> IF idx < count /\ ~failed THEN "w_card" ELSE "w_page", idx |-> idx + 1]

\* for i in range(count): try ... except: continue     (idx is 1-based)
NextCard(idx, count, failed) ==
    [pc |-> IF idx < count THEN "w_card" ELSE "w_page", idx |-> idx + 1]

\* fallback_idx = 0 if "Ministry" in section_name else 1   (v2: "Ministr")
FallbackBlock(v, section_name) ==
    IF Contains(section_name, IF v = 1 THEN <<"M","i","n","i","s","t","r","y">> ELSE <<"M","i","n","i","s","t","r">>) THEN 1 ELSE 2

\* the first filter header whose text contains section_name, else the fallback
LocateBlock(v, section_name) ==
    LET hit(n) == Contains(Lower(FILTER_BLOCKS[n].head), Lower(section_name))
    IN  IF \E n \in 1..Len(FILTER_BLOCKS) : hit(n)
        THEN CHOOSE n \in 1..Len(FILTER_BLOCKS) : hit(n) /\ \A m \in 1..(n - 1) : ~hit(m)
        ELSE FallbackBlock(v, section_name)

\* the block the checkboxes are re-derived from after a recovery reload
RecoverBlock(v, block, section_name) ==
    IF v = 1 THEN FallbackBlock(v, section_name) ELSE block

\* (mutant) after the reload the loop starts again at the first option
RecoverIndex_restart(i) == 1

\* (mutant) the failed option is tried again
RecoverIndex_retry(i) == i

\* the loop variable after the except block: range() moves on
RecoverIndex(i) == i + 1

\* (mutant) the class test matches every next control
PaginateStep_any_class(absent, disabled, o) ==
    IF o = "count_raise" THEN "raise"
    ELSE IF absent THEN "stop"
    ELSE IF o = "class_raise" THEN "raise"
    ELSE "stop"

\* the pagination step: next_li.count() and its class are read outside the
\* try, the button lookup and the click inside it
PaginateStep(absent, disabled, o) ==
    IF o = "count_raise" THEN "raise"
    ELSE IF absent THEN "stop"
    ELSE IF o = "class_raise" THEN "raise"
    ELSE IF disabled THEN "stop"
    ELSE IF o \in {"no_button", "click_raise"} THEN "stop"
    ELSE "click"

Options(block) ==
    IF block \in 1..Len(FILTER_BLOCKS) THEN FILTER_BLOCKS[block].options ELSE <<>>

-----------------------------------------------------------------------------
\* State

NoFetch == [raise |-> "-", data |-> EmptyDict]

NoWalk ==
    [active |-> {}, visits |-> 0, clicks |-> 0, clean |-> TRUE,
     exit |-> "none", site |-> "-", attempted |-> {}, failed |-> {}]

FreshHist ==
    [loaded |-> FALSE, started |-> {}, fetched |-> NoFetch, acts |-> <<>>,
     failedOpt |-> 0, recovered |-> FALSE, recoverRaised |-> FALSE, reloads |-> 0,
     walk |-> NoWalk]

NoFi == [block |-> 0, total |-> 0, i |-> 0, name |-> <<>>]

NoWk == [count |-> 0, idx |-> 0, url |-> <<>>]

NoCt == [text |-> <<>>, once |-> <<>>, twice |-> <<>>, calls |-> 0]

Init ==
    /\ variant \in {1, 2}
    /\ pc = "main_goto"
    /\ phase = 0
    /\ rv = FreshView
    /\ openViews = 0
    /\ files = [s \in SINKS |-> NoFile]
    /\ fi = NoFi
    /\ wk = NoWk
    /\ faults = 0
    /\ runs = 1
    /\ hist = FreshHist
    /\ ct = NoCt

\* a driver raise that is counted against MaxFaults; with faults beyond
\* MaxFaults nothing is counted: the driver may fail at every call
Counted(n) ==
    IF faults > MaxFaults THEN faults' = faults
    ELSE /\ faults + n <= MaxFaults
         /\ faults' = faults + n

\* the history counters of a walk stop at MaxVisits
Inc(n) == IF n < MaxVisits THEN n + 1 ELSE n

StartPhase(h, ph) ==
    [h EXCEPT !.started = @ \cup {ph}, !.acts = <<>>, !.failedOpt = 0,
              !.recovered = FALSE, !.recoverRaised = FALSE, !.reloads = 0,
              !.walk = NoWalk]

StartWalk(h, active) == [h EXCEPT !.walk = [NoWalk EXCEPT !.active = active, !.exit = "running"]]

\* main: page.goto(BASE_URL), then phase 1
MainGoto ==
    /\ pc = "main_goto"
    /\ \E ok \in BOOLEAN :
          /\ pc' = IF ok THEN "fi_locate" ELSE "crashed"
          /\ phase' = IF ok THEN 1 ELSE 0
          /\ hist' = IF ok THEN StartPhase([hist EXCEPT !.loaded = TRUE], 1) ELSE hist
    /\ rv' = FreshView
    /\ UNCHANGED <<ct, variant, openViews, files, fi, wk, faults, runs>>

\* main: page.reload() between phases, then the next phase
MainReload ==
    /\ pc = "main_reload"
    /\ \E ok \in BOOLEAN :
          /\ pc' = IF ~ok THEN "crashed" ELSE IF phase = 1 THEN "fi_locate" ELSE "w_enum"
          /\ phase' = IF ok THEN phase + 1 ELSE phase
          /\ rv' = IF ok THEN FreshView ELSE rv
          /\ hist' = IF ~ok THEN hist
                     ELSE IF phase = 1 THEN StartPhase(hist, 2)
                     ELSE StartWalk(StartPhase(hist, 3), {})
    /\ fi' = NoFi
    /\ wk' = NoWk
    /\ UNCHANGED <<ct, variant, openViews, files, faults, runs>>

\* click_filter_and_process up to the loop: wait for the sidebar, find the
\* block, count its checkboxes
FilterLocate ==
    /\ pc = "fi_locate"
    /\ \E o \in {"ok", "raise"} :
          /\ Counted(IF o = "ok" THEN 0 ELSE 1)
          /\ LET block == LocateBlock(variant, SectionName(phase))
             IN  /\ pc' = IF o = "ok" THEN "fi_loop" ELSE AfterPhaseRaise(variant, phase)
                 /\ fi' = IF o = "ok"
                          THEN [block |-> block, total |-> Len(Options(block)),
                                i |-> 1, name |-> <<>>]
                          ELSE fi
    /\ UNCHANGED <<ct, variant, phase, rv, openViews, files, wk, runs, hist>>

\* loop body up to the walk: read the label, click the checkbox
FilterActivate ==
    /\ pc = "fi_loop"
    /\ fi.i <= fi.total
    /\ \E o \in {"ok", "raise"} :
          LET present == fi.i <= Len(Options(fi.block))
              good == o = "ok" /\ present
              opt == <<fi.block, fi.i>>
          IN  /\ o = "raise" => present
              /\ Counted(IF o = "ok" THEN 0 ELSE 1)
              /\ pc' = IF good THEN "w_enum" ELSE "fi_recover"
              /\ fi' = IF good
                       THEN [fi EXCEPT !.name = FilterName(Options(fi.block)[fi.i].label)]
                       ELSE fi
              /\ rv' = IF good THEN Toggle(rv, opt) ELSE rv
              /\ hist' = IF good
                         THEN StartWalk([hist EXCEPT !.acts = Append(@, opt),
                                                     !.recovered = FALSE],
                                        Toggle(rv, opt).active)
                         ELSE [hist EXCEPT !.failedOpt = fi.i, !.recovered = FALSE]
    /\ wk' = NoWk
    /\ UNCHANGED <<ct, variant, phase, openViews, files, runs>>

\* range(total_filters) is exhausted: the function returns
FilterLoopEnd ==
    /\ pc = "fi_loop"
    /\ fi.i > fi.total
    /\ pc' = AfterPhaseReturn(phase)
    /\ UNCHANGED <<ct, variant, phase, rv, openViews, files, fi, wk, faults, runs, hist>>

\* after the walk: click the same checkbox again
FilterDeactivate ==
    /\ pc = "fi_deact"
    /\ \E o \in {"ok", "raise"} :
          /\ Counted(IF o = "ok" THEN 0 ELSE 1)
          /\ pc' = IF o = "ok" THEN "fi_loop" ELSE "fi_recover"
          /\ fi' = IF o = "ok" THEN [fi EXCEPT !.i = @ + 1] ELSE fi
          /\ rv' = IF o = "ok" THEN Toggle(rv, <<fi.block, fi.i>>) ELSE rv
          /\ hist' = IF o = "ok" THEN hist ELSE [hist EXCEPT !.failedOpt = fi.i]
    /\ UNCHANGED <<ct, variant, phase, openViews, files, wk, runs>>

\* except: page.reload(); re-derive the checkboxes; the loop goes on with i + 1
FilterRecover ==
    /\ pc = "fi_recover"
    /\ \E ok \in BOOLEAN :
          /\ pc' = IF ok THEN "fi_loop" ELSE AfterPhaseRaise(variant, phase)
          /\ rv' = IF ok THEN FreshView ELSE rv
          /\ fi' = IF ok
                   THEN [fi EXCEPT !.block = RecoverBlock(variant, fi.block, SectionName(phase)),
                                   !.i = RecoverIndex(@)]
                   ELSE fi
          /\ hist' = IF ok THEN [hist EXCEPT !.recovered = TRUE, !.reloads = @ + 1]
                     ELSE [hist EXCEPT !.recoverRaised = TRUE, !.reloads = @ + 1]
    /\ UNCHANGED <<ct, variant, phase, openViews, files, wk, faults, runs>>

\* the walk returns to its caller
ReturnWalk(h) == [h EXCEPT !.walk.exit = "returned"]

\* the walk raises to its caller from the driver call `site`
RaiseWalk(h, site, ph, i) ==
    [h EXCEPT !.walk.exit = "raised", !.walk.site = site, !.walk.clean = FALSE,
              !.failedOpt = IF ph \in {1, 2} THEN i ELSE @]

\* top of the while loop: (v2) wait for a card, then cards.count()
WalkEnumerate ==
    /\ pc = "w_enum"
    /\ \E o \in {"ok", "raise"} :
          LET cards == CardsOn(rv)
              nocards == variant = 2 /\ cards = <<>>
              h == [hist EXCEPT !.walk.visits = Inc(@), !.walk.attempted = {},
                                !.walk.failed = {}]
          IN  /\ o = "raise" => ~nocards
              /\ Counted(IF o = "ok" THEN 0 ELSE 1)
              /\ pc' = IF o = "raise" THEN AfterWalkRaise(variant, phase)
                       ELSE IF nocards THEN AfterWalkReturn(phase)
                       ELSE IF Len(cards) = 0 THEN "w_page"
                       ELSE "w_card"
              /\ wk' = IF o = "ok" /\ ~nocards
                       THEN [count |-> Len(cards), idx |-> 1, url |-> <<>>]
                       ELSE wk
              /\ hist' = IF o = "raise" THEN RaiseWalk(h, "cards_count", phase, fi.i)
                         ELSE IF nocards THEN ReturnWalk(h)
                         ELSE h
    /\ UNCHANGED <<ct, variant, phase, rv, openViews, files, fi, runs>>

\* card idx: read the href, join the URL, open the secondary view
CardOpen ==
    /\ pc = "w_card"
    /\ \E o \in {"ok", "href_raise", "new_page_raise"} :
          LET href == CardsOn(rv)[wk.idx]
              opens == o = "ok" /\ href # <<>>
              nxt == NextCard(wk.idx, wk.count, o # "ok")
              h == [hist EXCEPT !.walk.attempted = @ \cup {wk.idx},
                                !.walk.failed = IF o = "ok" THEN @ ELSE @ \cup {wk.idx},
                                !.walk.clean = IF o = "ok" THEN @ ELSE FALSE]
          IN  /\ o = "new_page_raise" => href # <<>>
              /\ Counted(IF o = "ok" THEN 0 ELSE 1)
              /\ pc' = IF opens THEN "w_detail" ELSE nxt.pc
              /\ wk' = IF opens THEN [wk EXCEPT !.url = urljoin(BASE_URL, href)]
                       ELSE [wk EXCEPT !.idx = nxt.idx]
              /\ openViews' = IF opens THEN openViews + 1 ELSE openViews
              /\ hist' = h
    /\ UNCHANGED <<ct, variant, phase, rv, files, fi, runs>>

\* card idx: extract in the secondary view, close it, overlay, append the row
CardFinish ==
    /\ pc = "w_detail"
    /\ \E raise \in {"none"} \cup RaisePoints(variant),
          w \in {"ok", "open_raise", "write_raise"} :
          LET row_data == extract_detail_page(variant, wk.url, raise)
              row == safe_row(Headers(phase),
                              Overlay(row_data, ExtraFields(phase, fi.name)))
              tag == [run |-> runs, phase |-> phase,
                      opt |-> IF phase = 3 THEN <<>> ELSE <<fi.block, fi.i>>,
                      page |-> hist.walk.visits, card |-> wk.idx, raise |-> raise]
              nxt == NextCard(wk.idx, wk.count, w # "ok")
              file == files[Sink(phase)]
          IN  /\ Counted((IF raise = "none" THEN 0 ELSE 1) + (IF w = "ok" THEN 0 ELSE 1))
              /\ openViews' = CloseView(openViews, raise)
              /\ files' = [files EXCEPT ![Sink(phase)] =
                              IF w = "ok" THEN write_to_csv(file, Headers(phase), row, tag)
                              ELSE IF w = "write_raise" THEN Touch(file)
                              ELSE file]
              /\ pc' = nxt.pc
              /\ wk' = [wk EXCEPT !.idx = nxt.idx, !.url = <<>>]
              /\ rv' = GotoDetail(rv, wk.url)
              /\ hist' = [hist EXCEPT
                            !.fetched = [raise |-> raise, data |-> row_data],
                            !.walk.failed = IF w = "ok" THEN @ ELSE @ \cup {wk.idx},
                            !.walk.clean = IF raise = "none" /\ w = "ok" THEN @ ELSE FALSE]
    /\ UNCHANGED <<ct, variant, phase, fi, runs>>

\* after the cards: look up li.ant-pagination-next, stop or click it
Paginate ==
    /\ pc = "w_page"
    /\ \E o \in {"ok", "count_raise", "class_raise", "no_button", "click_raise", "stuck"} :
          LET absent == ~NextPresent(rv)
              last == absent \/ NextDisabled(rv)
              step == PaginateStep(absent, NextDisabled(rv), o)
              raises == step = "raise"
              stops == step = "stop"
              h == [hist EXCEPT !.walk.clean = IF o = "ok" THEN @ ELSE FALSE]
          IN  /\ o = "class_raise" => ~absent
              /\ o \in {"no_button", "click_raise", "stuck"} => ~last
              /\ Counted(IF o = "ok" THEN 0 ELSE 1)
              /\ pc' = IF raises THEN AfterWalkRaise(variant, phase)
                       ELSE IF stops THEN AfterWalkReturn(phase)
                       ELSE "w_enum"
              /\ rv' = IF o = "ok" /\ ~last THEN [rv EXCEPT !.page = @ + 1] ELSE rv
              /\ hist' = IF raises
                         THEN RaiseWalk(h, IF o = "count_raise" THEN "next_count"
                                           ELSE "next_class", phase, fi.i)
                         ELSE IF stops THEN ReturnWalk(h)
                         ELSE [h EXCEPT !.walk.clicks = Inc(@)]
    /\ wk' = NoWk
    /\ UNCHANGED <<ct, variant, phase, openViews, files, fi, runs>>

\* the process is started again after it ended or was killed: only the files
\* are kept.  A process killed inside write_to_csv may have opened the file
\* ("opened") or written the header ("header") without the row.
Restart ==
    /\ pc # "main_goto"
    /\ runs < MaxRuns
    /\ \E cut \in {"none", "opened", "header"} :
          LET file == files[Sink(phase)]
          IN  /\ cut # "none" => pc = "w_detail"
              /\ cut = "header" => ~file.exists
              /\ files' = IF cut = "none" THEN files
                           ELSE [files EXCEPT ![Sink(phase)] =
                                   [exists |-> TRUE,
                                    lines |-> IF cut = "header"
                                              THEN file.lines \o <<HeaderLine(Headers(phase))>>
                                              ELSE file.lines]]
    /\ runs' = runs + 1
    /\ pc' = "main_goto"
    /\ phase' = 0
    /\ rv' = FreshView
    /\ openViews' = 0
    /\ fi' = NoFi
    /\ wk' = NoWk
    /\ hist' = FreshHist
    /\ UNCHANGED <<ct, variant, faults>>

Next ==
    \/ MainGoto
    \/ MainReload
    \/ FilterLocate
    \/ FilterActivate
    \/ FilterLoopEnd
    \/ FilterDeactivate
    \/ FilterRecover
    \/ WalkEnumerate
    \/ CardOpen
    \/ CardFinish
    \/ Paginate

\* one run of main
Spec == Init /\ [][Next]_vars

\* runs and restarts over the same output directory; no counted driver raise,
\* so the except branch of the filter loop is never entered
InitResume ==
    /\ variant \in {1, 2}
    /\ pc = "main_goto"
    /\ phase = 0
    /\ rv = FreshView
    /\ openViews = 0
    /\ files = [s \in SINKS |-> NoFile]
    /\ fi = NoFi
    /\ wk = NoWk
    /\ faults = MaxFaults
    /\ runs = 1
    /\ hist = FreshHist
    /\ ct = NoCt

NextResume ==
    \/ MainGoto
    \/ MainReload
    \/ FilterLocate
    \/ FilterActivate
    \/ FilterLoopEnd
    \/ FilterDeactivate
    \/ WalkEnumerate
    \/ CardOpen
    \/ CardFinish
    \/ Paginate
    \/ Restart

SpecResume == InitResume /\ [][NextResume]_vars

\* clean_text on its own: the characters and the strings it is applied to
ALPHABET == {"<", ">", "a", " ", "\n"}

Texts == UNION {[1..n -> ALPHABET] : n \in 0..MaxText}

InitText ==
    /\ variant \in {1, 2}
    /\ pc = "clean_text"
    /\ phase = 0
    /\ rv = FreshView
    /\ openViews = 0
    /\ files = [s \in SINKS |-> NoFile]
    /\ fi = NoFi
    /\ wk = NoWk
    /\ faults = 0
    /\ runs = 1
    /\ hist = FreshHist
    /\ ct \in {[NoCt EXCEPT !.text = t] : t \in Texts}

\* clean_text(text), then clean_text of what it returned
CleanText ==
    /\ pc = "clean_text"
    /\ ct.calls < 2
    /\ ct' = IF ct.calls = 0
             THEN [ct EXCEPT !.once = clean_text(ct.text), !.calls = 1]
             ELSE [ct EXCEPT !.twice = clean_text(ct.once), !.calls = 2]
    /\ UNCHANGED <<variant, pc, phase, rv, openViews, files, fi, wk, faults, runs, hist>>

NextText == CleanText

SpecText == InitText /\ [][NextText]_vars

\* the ByDepartment phase on its own, with a driver that may fail at every
\* call, any number of times: from the entry of click_filter_and_process to
\* its return or raise
InitPhase ==
    /\ variant \in {1, 2}
    /\ pc = "fi_locate"
    /\ phase = 2
    /\ rv = FreshView
    /\ openViews = 0
    /\ files = [s \in SINKS |-> NoFile]
    /\ fi = NoFi
    /\ wk = NoWk
    /\ faults = MaxFaults + 1
    /\ runs = 1
    /\ hist = StartPhase([FreshHist EXCEPT !.loaded = TRUE, !.started = {1}], 2)
    /\ ct = NoCt

NextPhase ==
    \/ FilterLocate
    \/ FilterActivate
    \/ FilterLoopEnd
    \/ FilterDeactivate
    \/ FilterRecover
    \/ WalkEnumerate
    \/ CardOpen
    \/ CardFinish
    \/ Paginate

\* The steps of the phase outside a card's extraction
NextPhaseControl ==
    \/ FilterLocate
    \/ FilterActivate
    \/ FilterLoopEnd
    \/ FilterDeactivate
    \/ FilterRecover
    \/ WalkEnumerate
    \/ CardOpen
    \/ Paginate

\* The thread goes on as long as it has a next step: every wait, lookup and
\* click returns or times out.  For the extraction of a card, whose one step
\* CardFinish is enabled whenever pc = "w_detail", weak fairness is stated as
\* what it amounts to: the thread is not in an extraction forever.
SpecPhase ==
    /\ InitPhase
    /\ [][NextPhase]_vars
    /\ WF_vars(NextPhaseControl)
    /\ []<>(pc # "w_detail")

-----------------------------------------------------------------------------
\* Properties

SinkHeaders(s) ==
    IF s = "Ministries.csv" THEN MINISTRY_HEADERS
    ELSE IF s = "Departments.csv" THEN DEPT_HEADERS
    ELSE ALL_HEADERS

Rows(s) == SelectSeq(files[s].lines, LAMBDA l : l.kind = "row")

HeaderCount(s) == Len(SelectSeq(files[s].lines, LAMBDA l : l.kind = "header"))

IsPrefix(a, b) == Len(a) <= Len(b) /\ SubSeq(b, 1, Len(a)) = a

\* the name of a filter option as the site lists it, without the count
OptionName(opt) == FILTER_BLOCKS[opt[1]].options[opt[2]].name

\* C1: the secondary view is open only inside a call of extract_detail_page:
\* there is never more than one, and there is none between two cards, at the
\* pagination step, or anywhere outside the walk of a page's cards, whether
\* the call ended normally, with a navigation failure or with an exception
\* during extraction.
C1_ViewReleased ==
    /\ openViews <= 1
    /\ pc # "w_detail" => openViews = 0

\* a call that ended in its except branch has returned, before the next card
C1_Witness ==
    /\ hist.fetched.raise \in RaisePoints(variant)
    /\ pc = "w_card"
    /\ openViews = 0

\* C2: once the catalog is loaded, no failure ends the run: a failure inside
\* a phase is caught at the phase boundary and the later phases still start.
C2_NoFailureEndsRun == hist.loaded => pc # "crashed"

\* C3: when the navigation of the detail view fails, extract_detail_page
\* returns (does not raise) a record whose every field, the link included,
\* is Error.
C3_NavFailureAllError ==
    hist.fetched.raise = "goto" =>
        hist.fetched.data = [k \in Range(ALL_HEADERS) |-> ERROR]

C3_Witness ==
    /\ hist.fetched.raise = "goto"
    /\ pc \in {"w_card", "w_page"}

\* C4: every row in a sink has a value for exactly the columns of that
\* sink's schema, whatever extract_detail_page returned for it.
C4_RowsMatchSchema ==
    \A s \in SINKS : \A n \in 1..Len(files[s].lines) :
        files[s].lines[n].kind = "row" =>
            DOMAIN files[s].lines[n].cells = Range(SinkHeaders(s))

\* a filtered sink holds a row of a full record and a row of an Error or
\* partial record
C4_Witness ==
    \E s \in {"Ministries.csv", "Departments.csv"} :
        /\ \E n \in 1..Len(Rows(s)) : Rows(s)[n].tag.raise = "none"
        /\ \E n \in 1..Len(Rows(s)) : Rows(s)[n].tag.raise \in {"goto", "about"}

\* C5: over runs and restarts on the same files, a sink never holds more than
\* one header row; a header is written only by a write that found no file, and
\* a file that exists is only ever extended.
C5_HeaderAtMostOnce ==
    /\ [](\A s \in SINKS : HeaderCount(s) <= 1)
    /\ [][\A s \in SINKS :
            /\ IsPrefix(files[s].lines, files'[s].lines)
            /\ files[s].exists => files'[s].exists
            /\ files[s].exists =>
                  \A n \in (Len(files[s].lines) + 1)..Len(files'[s].lines) :
                      files'[s].lines[n].kind = "row"]_vars

\* a later run appended to the file an earlier run created
C5_Witness ==
    \E s \in SINKS : \E m, n \in 1..Len(files[s].lines) :
        /\ m < n
        /\ files[s].lines[m].kind = "row"
        /\ files[s].lines[n].kind = "row"
        /\ files[s].lines[m].tag.run < files[s].lines[n].tag.run

\* C6: in a filtered phase every row holds, in the forced column, the name of
\* the filter option that was being processed, whatever the banner gave.
C6_ForcedColumn ==
    \A ph \in {1, 2} : \A n \in 1..Len(Rows(Sink(ph))) :
        Rows(Sink(ph))[n].cells[HeaderKey(ph)] = OptionName(Rows(Sink(ph))[n].tag.opt)

\* the record just fetched had another ministry name from the banner than
\* the one written
C6_Witness ==
    /\ phase = 1
    /\ pc \in {"w_card", "w_page"}
    /\ hist.fetched.raise = "none"
    /\ hist.fetched.data["Ministry Name"] # NA
    /\ Len(Rows(Sink(1))) > 0
    /\ LET last == Rows(Sink(1))[Len(Rows(Sink(1)))]
       IN  /\ last.cells["Approval Link"] = hist.fetched.data["Approval Link"]
           /\ last.cells["Ministry Name"] # hist.fetched.data["Ministry Name"]

\* N pages, each with a card
WellFormed(pages) == Len(pages) >= 1 /\ \A p \in 1..Len(pages) : pages[p] # <<>>

\* C7: over N >= 1 pages, each with a card, the last one with the next control
\* disabled, a walk in which no driver call fails visits exactly N pages,
\* clicks next N - 1 times and returns.
C7_VisitsEveryPageOnce ==
    /\ hist.walk.clean
    /\ hist.walk.exit \in {"returned", "raised"}
    /\ WellFormed(Catalog(hist.walk.active))
    => /\ hist.walk.exit = "returned"
       /\ hist.walk.visits = Len(Catalog(hist.walk.active))
       /\ hist.walk.clicks = Len(Catalog(hist.walk.active)) - 1

C7_Witness ==
    /\ hist.walk.clean
    /\ hist.walk.exit = "returned"
    /\ WellFormed(Catalog(hist.walk.active))
    /\ Len(Catalog(hist.walk.active)) >= 2
    /\ hist.walk.clicks >= 1

\* C8: a failure of the lookup of the next control (its count, its class) or
\* of the click never leaves the walk as an exception.
C8_PaginationFailureReturns ==
    ~(hist.walk.exit = "raised" /\ hist.walk.site \in {"next_count", "next_class"})

\* C9: a failure on card i is caught in the walk: the cards after it are
\* processed, in order, and the walk reaches the pagination step with every
\* enumerated card processed.
C9_CardFailureContinues ==
    /\ pc = "w_page" => hist.walk.attempted = 1..wk.count
    /\ pc = "w_card" => hist.walk.attempted = 1..(wk.idx - 1) /\ wk.idx <= wk.count

\* at the pagination step, after a card that was not the last one failed
C9_Witness ==
    /\ pc = "w_page"
    /\ \E i \in hist.walk.failed : i < wk.count

StrictlyIncreasing(acts) ==
    \A m, n \in 1..Len(acts) : m < n => acts[m][2] < acts[n][2]

\* after a recovery the view is reloaded and the loop is at the next option
RecoveryMovesOn ==
    hist.recovered /\ pc = "fi_loop" => rv = FreshView /\ fi.i = hist.failedOpt + 1

InWalk == pc \in {"w_enum", "w_card", "w_detail", "w_page"}

\* C11: in a filtered phase nothing is active when the loop is about to
\* activate an option (the last one was deactivated or the view was reloaded),
\* so during a walk exactly one option is active, and it is the one whose
\* name is passed as the forced field.
C11_OneActiveFilter ==
    phase \in {1, 2} =>
        /\ pc \in {"fi_locate", "fi_loop"} => rv.active = {}
        /\ InWalk => /\ rv.active = {<<fi.block, fi.i>>}
                     /\ fi.name = OptionName(<<fi.block, fi.i>>)

\* the second option is being walked after the first was deactivated, and
\* another one after a recovery reload
C11_Witness ==
    /\ phase \in {1, 2}
    /\ pc = "w_card"
    /\ Len(hist.acts) >= 2
    /\ hist.failedOpt = 0
    /\ rv.active = {hist.acts[Len(hist.acts)]}

\* a step that enters click_filter_and_process or the unfiltered walk
PhaseStarts == pc' = "fi_locate" \/ (pc = "main_reload" /\ pc' = "w_enum")

\* C12: within a run the phases start in the order 1, 2, 3, each at most
\* once, each start follows a load or reload that left the default view, and
\* a sink is appended to only during its own phase, so that every append to an
\* earlier phase's sink precedes every append to a later one's.
C12_PhaseOrder ==
    [][/\ phase' \in {phase, phase + 1}
       /\ PhaseStarts => phase' = phase + 1
       /\ phase' # phase => /\ PhaseStarts
                            /\ pc \in {"main_goto", "main_reload"}
                            /\ rv' = FreshView
       /\ \A s \in SINKS :
             files'[s] # files[s] => phase \in 1..3 /\ s = Sink(phase) /\ phase' = phase]_vars

\* the third phase is running after the first two left rows in their sinks
C12_Witness ==
    /\ phase = 3
    /\ hist.started = {1, 2, 3}
    /\ Len(Rows(Sink(1))) > 0
    /\ Len(Rows(Sink(2))) > 0
    /\ Len(Rows(Sink(3))) > 0

\* position of a row's card in its phase: option, page visit, card
Before(a, b) ==
    \/ a.opt # b.opt /\ a.opt[2] < b.opt[2]
    \/ a.opt = b.opt /\ a.page < b.page
    \/ a.opt = b.opt /\ a.page = b.page /\ a.card < b.card

\* C13: the rows of a sink are in visit order: within a walk by page visited
\* and then by card, and in a filtered phase by option first.
C13_RowsInVisitOrder ==
    \A s \in SINKS : \A m, n \in 1..Len(Rows(s)) :
        m < n => Before(Rows(s)[m].tag, Rows(s)[n].tag)

\* a filtered sink with rows of two options and of two pages of one option,
\* and the unfiltered sink with two rows of one page
C13_Witness ==
    /\ \E m, n \in 1..Len(Rows(Sink(1))) :
          Rows(Sink(1))[m].tag.opt # Rows(Sink(1))[n].tag.opt
    /\ \E m, n \in 1..Len(Rows(Sink(1))) :
          /\ Rows(Sink(1))[m].tag.opt = Rows(Sink(1))[n].tag.opt
          /\ Rows(Sink(1))[m].tag.page # Rows(Sink(1))[n].tag.page
    /\ \E m, n \in 1..Len(Rows(Sink(3))) :
          /\ Rows(Sink(3))[m].tag.page = Rows(Sink(3))[n].tag.page
          /\ Rows(Sink(3))[m].tag.card # Rows(Sink(3))[n].tag.card

\* the record a call returns when nothing raises
FullRecord(url) == extract_detail_page(variant, url, "none")

\* the fields the step `step` assigns
StepFields(step, url) == DOMAIN StepAssign(step, variant, url, DetailPage(url))

\* C14: when the step of one field raises after the navigation, the record
\* has N/A in that field and in every other field the value it has when
\* nothing raises; no field is Error.
C14_FieldFailureLocal ==
    hist.fetched.raise \in RaisePoints(variant) \ {"goto"} =>
        LET d == hist.fetched.data
            url == d["Approval Link"]
        IN  \A k \in Range(ALL_HEADERS) :
                d[k] = IF k \in StepFields(hist.fetched.raise, url) THEN NA
                       ELSE FullRecord(url)[k]

\* a non-empty text without tags, without whitespace at its ends, and with
\* no whitespace other than single spaces
Normalized(t) ==
    /\ t # <<>>
    /\ StripTags(t) = t
    /\ Strip(t) = t
    /\ \A n \in 1..Len(t) :
          IsSpace(t[n]) => t[n] = " " /\ (n > 1 => ~IsSpace(t[n - 1]))

\* C15: every field of a record returned without a failure is N/A or a
\* normalized non-empty text; it is never the empty string.
C15_FieldsNormalized ==
    hist.fetched.raise = "none" =>
        \A k \in Range(ALL_HEADERS) :
            hist.fetched.data[k] = NA \/ Normalized(hist.fetched.data[k])

\* C16: clean_text is idempotent: applied to its own result it returns that
\* result, for every text (the empty one, whitespace only and tags only
\* included).
C16_CleanTextIdempotent == ct.calls = 2 => ct.twice = ct.once

\* the first of the lines that contains kw, N/A when none does
RECURSIVE FirstMatch(_, _)
FirstMatch(lines, kw) ==
    IF lines = <<>> THEN NA
    ELSE IF Contains(Head(lines), kw) THEN Head(lines)
    ELSE FirstMatch(Tail(lines), kw)

\* the banner text of the page at url as the page renders it
BannerText(url) ==
    IF Len(DetailPage(url).banner) > 0 THEN DetailPage(url).banner[1] ELSE <<>>

\* C17: once the banner step is done, Ministry Name is the first non-empty
\* line of the banner that contains "Ministry" and Department Name the first
\* that contains "Department", N/A when there is none; the banner "Ministry of
\* Health" / "Department of Health Research" gives these two lines.
C17_BannerFirstMatch ==
    hist.fetched.raise \in {"none", "about", "who", "docs", "trigger", "nsws"} =>
        LET d == hist.fetched.data
            lines == BannerLines(BannerText(d["Approval Link"]))
        IN  /\ d["Ministry Name"] = FirstMatch(lines, <<"M","i","n","i","s","t","r","y">>)
            /\ d["Department Name"] = FirstMatch(lines, <<"D","e","p","a","r","t","m","e","n","t">>)

\* C18: among the rows one run appends to a sink no two have the same
\* Approval Link.
C18_LinkUniqueInPhase ==
    \A s \in SINKS : \A m, n \in 1..Len(Rows(s)) :
        m < n /\ Rows(s)[m].tag.run = Rows(s)[n].tag.run =>
            Rows(s)[m].cells["Approval Link"] # Rows(s)[n].cells["Approval Link"]

\* C19: a call of extract_detail_page leaves the results view (its page and
\* its active filters) as it was; the view changes only in the steps of main
\* (load, reload), of the filter loop (activate, deactivate, recovery reload)
\* and of the pagination step.
C19_FetcherLeavesResultsView ==
    [][/\ pc = "w_detail" => rv' = rv
       /\ rv' # rv => pc \in {"main_goto", "main_reload", "fi_loop", "fi_deact",
                               "fi_recover", "w_page"}]_vars

\* a call has returned while a filter was active and the list was on page 2
C19_Witness ==
    /\ pc \in {"w_card", "w_page"}
    /\ hist.fetched.raise # "-"
    /\ hist.fetched.data["Approval Link"] = urljoin(BASE_URL, CardsOn(rv)[1])
    /\ rv.page = 2
    /\ rv.active # {}

\* C20: every option activated in a filtered phase is an option of the
\* phase's own filter group, also after a recovery reload.
C20_OptionsOfPhaseGroup ==
    phase \in {1, 2} =>
        \A n \in 1..Len(hist.acts) :
            FILTER_BLOCKS[hist.acts[n][1]].head = SectionName(phase)

\* C21: when no card was enumerated on the current page, the walk ends
\* without a click on the next control, also when that control is there and
\* enabled.
C21_NoCardsNoClick ==
    [][pc = "w_page" /\ wk.count = 0 =>
          /\ hist'.walk.clicks = hist.walk.clicks
          /\ pc' # "w_enum"]_vars

\* the sink each phase is given in main
SinkOfPhase == [ph \in 1..3 |-> IF ph = 1 THEN "Ministries.csv"
                                ELSE IF ph = 2 THEN "Departments.csv"
                                ELSE "All_Approvals.csv"]

\* the rows in sink s that came from card i of the page being walked
RowsOfCard(s, i) ==
    SelectSeq(Rows(s), LAMBDA r :
        /\ r.tag.run = runs
        /\ r.tag.phase = phase
        /\ r.tag.opt = (IF phase = 3 THEN <<>> ELSE <<fi.block, fi.i>>)
        /\ r.tag.page = hist.walk.visits
        /\ r.tag.card = i)

\* C22: when the cards of a page have been processed, the phase's sink holds
\* exactly one row for each card that has a link and whose processing did not
\* raise, and none for the other cards; a step appends at most one row, and
\* only to the sink of the phase that is running.
C22_OneRowPerCard ==
    /\ [](pc = "w_page" =>
            \A i \in 1..wk.count :
                Len(RowsOfCard(SinkOfPhase[phase], i)) =
                    (IF CardsOn(rv)[i] # NoHref /\ i \notin hist.walk.failed
                     THEN 1 ELSE 0))
    /\ [][\A s \in SINKS :
            /\ Len(Rows(s)') <= Len(Rows(s)) + 1
            /\ Len(Rows(s)') > Len(Rows(s)) =>
                  phase \in 1..3 /\ s = SinkOfPhase[phase] /\ pc = "w_detail"]_vars

\* after two rows were written for the cards of another option: a page whose
\* first card raised and whose second card has no link, and no row for either
C22_Witness ==
    /\ pc = "w_page"
    /\ wk.count = 2
    /\ CardsOn(rv)[2] = NoHref
    /\ 1 \in hist.walk.failed
    /\ Len(Rows(SinkOfPhase[phase])) = 2
    /\ RowsOfCard(SinkOfPhase[phase], 1) = <<>>
    /\ RowsOfCard(SinkOfPhase[phase], 2) = <<>>

\* the headings of the page whose text contains kw
HeadsWith(dom, kw) == SelectSeq(dom.heads, LAMBDA h : Contains(h.text, kw))

\* every text found after, beside or under one of the headings hs
ContentsOf(hs) ==
    UNION {Range(hs[n].following) \cup Range(hs[n].sibling) \cup Range(hs[n].parentLast) :
           n \in 1..Len(hs)}

\* the position of the first synonym that has a heading, 0 when none has
FirstHit(dom, kws) ==
    IF \E n \in 1..Len(kws) : HeadsWith(dom, kws[n]) # <<>>
    THEN CHOOSE n \in 1..Len(kws) :
            /\ HeadsWith(dom, kws[n]) # <<>>
            /\ \A m \in 1..(n - 1) : HeadsWith(dom, kws[m]) = <<>>
    ELSE 0

\* val is what the first synonym with a heading gives: its content,
\* normalized, or N/A; N/A when no synonym has a heading
FromFirstSynonym(dom, kws, val) ==
    IF FirstHit(dom, kws) = 0 THEN val = NA
    ELSE \/ val = NA /\ \E n \in 1..Len(HeadsWith(dom, kws[FirstHit(dom, kws)])) :
                           \/ HeadsWith(dom, kws[FirstHit(dom, kws)])[n].following = <<>>
                           \/ HeadsWith(dom, kws[FirstHit(dom, kws)])[n].sibling = <<>>
         \/ val \in {clean_text(c) : c \in ContentsOf(HeadsWith(dom, kws[FirstHit(dom, kws)]))}

\* C23: each section field of a record is taken from the first synonym, in
\* list order, that has a heading on the page: the normalized content found
\* for it, or N/A when that content cannot be read, whatever later synonyms
\* would give; N/A when no synonym has a heading.
C23_FirstSynonymWins ==
    hist.fetched.raise = "none" =>
        LET d == hist.fetched.data
            dom == DetailPage(d["Approval Link"])
        IN  /\ FromFirstSynonym(dom, ABOUT_KEYWORDS(variant), d["About this approval"])
            /\ FromFirstSynonym(dom, WHO_KEYWORDS(variant), d["Who can apply"])
            /\ FromFirstSynonym(dom, DOCS_KEYWORDS(variant), d["Documents required"])
            /\ FromFirstSynonym(dom, TRIGGER_KEYWORDS(variant),
                                d["Approval applicability/trigger"])

\* a record of the page whose "Applicability" heading has no content while
\* its "Trigger" heading has: the field is N/A; another field has content
C23_Witness ==
    /\ hist.fetched.raise = "none"
    /\ HeadsWith(DetailPage(hist.fetched.data["Approval Link"]), <<"T","r","i","g","g","e","r">>) # <<>>
    /\ HeadsWith(DetailPage(hist.fetched.data["Approval Link"]), <<"A","p","p","l","i","c","a","b","i","l","i","t","y">>) # <<>>
    /\ hist.fetched.data["Approval applicability/trigger"] = NA
    /\ hist.fetched.data["About this approval"] = <<"S","a","f","e","t","y"," ","p","e","r","m","i","t">>

\* C24: every walk ends: whenever the thread is in the walk it is later
\* out of it, whatever the results view does, as long as each wait, lookup
\* and click returns or times out.
C24_WalkTerminates == InWalk ~> ~InWalk

\* click_filter_and_process has returned or raised
PhaseOver == pc \in {"main_reload", "crashed", "done"}

\* C25: in a filtered phase there are never more recovery reloads than
\* options counted at its entry, and if every walk ends the phase ends, also
\* when every option fails.
C25_RecoveryBounded ==
    /\ [](hist.reloads <= fi.total)
    /\ (InWalk ~> ~InWalk) => <>PhaseOver

\* the phase is over after every option failed and was followed by a reload
C25_Witness ==
    /\ PhaseOver
    /\ fi.total = 2
    /\ hist.reloads = fi.total
    /\ hist.acts = <<>>

====
